---- MODULE Spec2Model ----
(***************************************************************************)
(* A model of critcmp's report renderer, src/output.rs: the construction   *)
(* of a Comparison from a list of benchmarks, its rank queries, the        *)
(* drop_under filter of Comparisons and the list and table renderers       *)
(* writing to a colour-capable, fallible sink.                             *)
(*                                                                         *)
(* Numbers.  Durations are f64 in the source; the model draws them from    *)
(* small non-negative integers (exactly representable).  The result of a   *)
(* float division is kept exactly, as a reduced fraction n/d, with the     *)
(* IEEE-754 special values the division can produce (+inf for x/0, NaN for *)
(* 0/0).  Where a quotient is compared with the decimal constants 0.03     *)
(* and 0.1 (set_colors_baseline_mode) the direction in which the f64       *)
(* division rounded is computed too (RoundDir), since it decides the       *)
(* comparison when the exact quotient sits on the constant.                *)
(***************************************************************************)
EXTENDS Integers, Sequences, FiniteSets, TLC

VARIABLES
    input,      \* the arguments of the Comparison::new calls: <<[ident, benchmarks]>>
    config,     \* DisplayConfig: [list, rank, value_format]
    failAt,     \* the sink: its failAt-th operation returns an I/O error (0: never)
    comps,      \* Comparisons.comps
    pc,         \* "start" (nothing built), "ready" (Comparisons built), "written"
    thresholds, \* the arguments of the drop_under calls so far
    prev,       \* Comparisons.comps before the last drop_under
    query,      \* outcome of the last best()/worst()/first() query
    sink,       \* [ops: operations the sink performed, styled: a colour is in effect]
    result      \* outcome of write: "none", "ok", "err", "panic"

vars == <<input, config, failAt, comps, pc, thresholds, prev, query, sink, result>>

----------------------------------------------------------------------------
(* Option<T> *)
None == [some |-> FALSE]
Some(v) == [some |-> TRUE, v |-> v]

Range(s) == {s[i] : i \in DOMAIN s}

----------------------------------------------------------------------------
(* f64 values produced by the arithmetic of the source *)

RECURSIVE Gcd(_, _)
Gcd(a, b) == IF b = 0 THEN a ELSE Gcd(b, a % b)

Abs(x) == IF x < 0 THEN -x ELSE x

NaN == [k |-> "nan"]
Inf == [k |-> "inf"]
NegInf == [k |-> "ninf"]
IsNaN(x) == x.k = "nan"
\* the finite value n/d (d > 0), reduced; e is the sign of the rounding error
\* the f64 operation added to it (0 where the model does not track it)
Fin(n, d, e) ==
    LET g == Gcd(Abs(n), d) IN [k |-> "fin", n |-> n \div g, d |-> d \div g, e |-> e]

\* Sign of fl(c / f) - c / f for integers c, f > 0: the f64 quotient has a 53 bit
\* significand, rounded to nearest, ties to even.  Long division on the
\* remainder alone: c and f are first scaled by powers of two so that
\* f <= c < 2f, the leading bit is 1, and 52 more bits follow.
RECURSIVE ScaleUp(_, _)
ScaleUp(c, f) == IF c >= f THEN c ELSE ScaleUp(2 * c, f)
RECURSIVE ScaleDown(_, _)
ScaleDown(c, f) == IF c < 2 * f THEN f ELSE ScaleDown(c, 2 * f)
RECURSIVE DivBits(_, _, _, _)
DivBits(r, f, last, left) ==
    IF left = 0
    THEN IF r = 0 THEN 0
         ELSE IF 2 * r < f THEN -1
         ELSE IF 2 * r > f THEN 1
         ELSE IF last = 1 THEN 1 ELSE -1
    ELSE IF 2 * r >= f THEN DivBits(2 * r - f, f, 1, left - 1)
         ELSE DivBits(2 * r, f, 0, left - 1)
MantissaBits == 52
RoundDir(c, f) ==
    LET c1 == ScaleUp(c, f)
        f1 == ScaleDown(c1, f)
    IN DivBits(c1 - f1, f1, 1, MantissaBits)

\* a / b for non-negative integral f64 a, b
f64_div(a, b) ==
    IF b = 0 THEN (IF a = 0 THEN NaN ELSE Inf)
    ELSE IF a = 0 THEN Fin(0, 1, 0)
    ELSE Fin(a, b, RoundDir(a, b))

\* x * k for a positive integer constant k (the rounding of the product is not
\* tracked; it is exact for the quotients of the durations drawn here)
f64_mul(x, k) == IF x.k = "fin" THEN Fin(x.n * k, x.d, 0) ELSE x

\* x - 1.0 (exact for 0.5 <= x <= 2, so the rounding of x carries over)
f64_sub1(x) == IF x.k = "fin" THEN Fin(x.n - x.d, x.d, x.e) ELSE x

\* -x
f64_neg(x) ==
    CASE x.k = "fin" -> Fin(-x.n, x.d, -x.e)
      [] x.k = "inf" -> NegInf
      [] x.k = "ninf" -> Inf
      [] OTHER -> x

\* x > 0.0
f64_gt0(x) ==
    CASE x.k = "nan" -> FALSE
      [] x.k = "inf" -> TRUE
      [] x.k = "ninf" -> FALSE
      [] OTHER -> x.n > 0

\* x > t and x <= t for an integral f64 t; both are false of NaN
f64_gt(x, t) ==
    CASE x.k = "nan" -> FALSE
      [] x.k = "inf" -> TRUE
      [] x.k = "ninf" -> FALSE
      [] OTHER -> x.n > t * x.d
f64_le(x, t) ==
    CASE x.k = "nan" -> FALSE
      [] x.k = "inf" -> FALSE
      [] x.k = "ninf" -> TRUE
      [] OTHER -> x.n <= t * x.d

\* x < c for one of the decimal constants c = fl(cn / cd) of the source, x a
\* difference from 1.0 of a quotient.  Off the constant the exact values
\* decide.  On it, x lies on the 2^-52 (2^-53) grid around 1.0 and the constant
\* on a finer grid without being a point of the coarse one, so x < c exactly
\* when the division rounded x below the exact value.
f64_lt_const(x, cn, cd) ==
    CASE x.k = "nan" -> FALSE
      [] x.k = "inf" -> FALSE
      [] x.k = "ninf" -> TRUE
      [] OTHER -> IF x.n * cd = cn * x.d THEN x.e < 0 ELSE x.n * cd < cn * x.d

----------------------------------------------------------------------------
(* Comparison *)

\* str::split(sep) on a sequence of characters: the parts between separators
RECURSIVE split(_, _)
split(s, sep) ==
    IF \A i \in DOMAIN s : s[i] # sep THEN <<s>>
    ELSE LET i == CHOOSE i \in DOMAIN s : s[i] = sep /\ \A j \in 1..(i - 1) : s[j] # sep
         IN <<SubSeq(s, 1, i - 1)>> \o split(SubSeq(s, i + 1, Len(s)), sep)

\* .map(|b| (b.name.clone(), b)).collect::<BTreeMap>(): a later entry replaces
\* an earlier one of the same name
collect(bs) ==
    [n \in {bs[i].name : i \in DOMAIN bs} |->
        bs[CHOOSE i \in DOMAIN bs :
              bs[i].name = n /\ \A j \in DOMAIN bs : bs[j].name = n => j <= i]]

\* a faulty variant of sort_by: an entry goes before the entries of equal duration
RECURSIVE sort_by_unstable(_)
sort_by_unstable(bs) ==
    IF bs = <<>> THEN <<>>
    ELSE LET n == Len(bs)
             b == bs[n]
             s == sort_by_unstable(SubSeq(bs, 1, n - 1))
             k == Cardinality({i \in DOMAIN s : s[i].nanoseconds < b.nanoseconds})
         IN SubSeq(s, 1, k) \o <<b>> \o SubSeq(s, k + 1, n - 1)

\* benchmarks.sort_by(|a, b| a.nanoseconds.partial_cmp(&b.nanoseconds).unwrap()):
\* a stable sort (the unwrap fails only on NaN, which no duration here is)
RECURSIVE sort_by(_)
sort_by(bs) ==
    IF bs = <<>> THEN <<>>
    ELSE LET n == Len(bs)
             b == bs[n]
             s == sort_by(SubSeq(bs, 1, n - 1))
             k == Cardinality({i \in DOMAIN s : s[i].nanoseconds <= b.nanoseconds})
         IN SubSeq(s, 1, k) \o <<b>> \o SubSeq(s, k + 1, n - 1)

new(name, benchmarks) ==
    LET name_parts == split(name, "/")
        group == IF Len(name_parts) >= 2 THEN Some(name_parts[1]) ELSE None
        nm == IF Len(name_parts) >= 2 THEN name_parts[2] ELSE name_parts[1]
        map == collect(benchmarks)
        empty == DOMAIN map = {}
    IN [name |-> nm,
        group |-> group,
        benchmarks |-> map,
        perf_ordered |->
            IF empty THEN <<>>
            ELSE [i \in DOMAIN benchmarks |-> sort_by(benchmarks)[i].name],
        cmdline_ordered |->
            IF empty THEN <<>>
            ELSE [i \in DOMAIN benchmarks |-> benchmarks[i].name]]

get(comp, name) ==
    IF name \in DOMAIN comp.benchmarks THEN Some(comp.benchmarks[name]) ELSE None

\* Vec::get(pos) with a 0-based pos, then the map lookup
get_by_perf(comp, pos) ==
    IF pos + 1 \in DOMAIN comp.perf_ordered
    THEN get(comp, comp.perf_ordered[pos + 1]) ELSE None

get_by_cmdline(comp, pos) ==
    IF pos + 1 \in DOMAIN comp.cmdline_ordered
    THEN get(comp, comp.cmdline_ordered[pos + 1]) ELSE None

best(comp) == get_by_perf(comp, 0)

first(comp) == get_by_cmdline(comp, 0)

\* self.perf_ordered.len() - 1 in usize.  On an empty list the subtraction
\* overflows: with overflow checks (debug builds) it panics, without them
\* (release builds) it wraps to usize::MAX, an index past every Vec.
worst(comp, overflow_checks) ==
    IF Len(comp.perf_ordered) = 0
    THEN [overflow |-> TRUE,
          outcome |-> IF overflow_checks THEN "panic" ELSE "returned",
          value |-> None]
    ELSE [overflow |-> FALSE,
          outcome |-> "returned",
          value |-> get_by_perf(comp, Len(comp.perf_ordered) - 1)]

\* a faulty variant of biggest_difference: the spread is taken from first(), not best()
biggest_difference_first(comp) ==
    IF Cardinality(DOMAIN comp.benchmarks) < 2 THEN Fin(0, 1, 0)
    ELSE LET b == first(comp).v.nanoseconds
             w == worst(comp, FALSE).value.v.nanoseconds
         IN IF w >= b THEN f64_mul(f64_div(w - b, b), 100)
            ELSE f64_neg(f64_mul(f64_div(b - w, b), 100))

biggest_difference(comp) ==
    IF Cardinality(DOMAIN comp.benchmarks) < 2 THEN Fin(0, 1, 0)
    ELSE LET b == best(comp).v.nanoseconds
             w == worst(comp, FALSE).value.v.nanoseconds
         IN IF w >= b THEN f64_mul(f64_div(w - b, b), 100)
            ELSE f64_neg(f64_mul(f64_div(b - w, b), 100))

----------------------------------------------------------------------------
(* Scalar formatters.  A formatted string is kept as the record of its parts. *)

MIN_MICRO == 2000
MIN_MILLI == 2000000
MIN_SEC == 2000000000

time(nanos, stddev) ==
    LET div == IF nanos < MIN_MICRO THEN 1
               ELSE IF nanos < MIN_MILLI THEN 1000
               ELSE IF nanos < MIN_SEC THEN 1000000
               ELSE 1000000000
        label == IF nanos < MIN_MICRO THEN "ns"
                 ELSE IF nanos < MIN_MILLI THEN "us"
                 ELSE IF nanos < MIN_SEC THEN "ms"
                 ELSE "s"
    IN IF stddev.some
       THEN [fmt |-> "{:.1}+-{:.2}{}", value |-> f64_div(nanos, div),
             stddev |-> Some(f64_div(stddev.v, div)), label |-> label]
       ELSE [fmt |-> "{:.1}{}", value |-> f64_div(nanos, div),
             stddev |-> None, label |-> label]

MIN_K == 2048
MIN_M == 2097152
\* MIN_G is 2 * 2^30, one more than the largest integer of the checker: per is
\* compared through its half, which is the same test for an integral per
HALF_MIN_G == 1073741824

throughput_per(per, unit) ==
    IF per < MIN_K
    THEN [fmt |-> "{} {}/sec", value |-> Fin(per, 1, 0), scale |-> "", unit |-> unit]
    ELSE IF per < MIN_M
    THEN [fmt |-> "{:.1} K{}/sec", value |-> f64_div(per, 1024), scale |-> "K", unit |-> unit]
    ELSE IF per \div 2 < HALF_MIN_G
    THEN [fmt |-> "{:.1} M{}/sec", value |-> f64_div(per, 1048576), scale |-> "M", unit |-> unit]
    ELSE [fmt |-> "{:.1} G{}/sec", value |-> f64_div(per, 1073741824), scale |-> "G", unit |-> unit]

Placeholder == [fmt |-> "? ?/sec", value |-> NaN, scale |-> "", unit |-> "?"]

throughput(t) ==
    IF t.some /\ t.v.tag = "Bytes" THEN throughput_per(t.v.num, "B")
    ELSE IF t.some /\ t.v.tag = "Elements" THEN throughput_per(t.v.num, "Elem")
    ELSE Placeholder

----------------------------------------------------------------------------
(* Comparisons: filter *)

\* a faulty variant of drop_under: a Comparison at the threshold is kept
drop_under_inclusive(cs, t) ==
    SelectSeq(cs, LAMBDA comp : f64_gt(biggest_difference(comp), t)
                                \/ (f64_le(biggest_difference(comp), t)
                                    /\ ~f64_le(biggest_difference(comp), t - 1)
                                    /\ biggest_difference(comp).k = "fin"
                                    /\ biggest_difference(comp).n
                                         = t * biggest_difference(comp).d))

\* Vec::retain(|comp| comp.biggest_difference() > threshold)
drop_under(cs, t) == SelectSeq(cs, LAMBDA comp : f64_gt(biggest_difference(comp), t))

\* a faulty variant of throughput_available: only the first Comparison is looked at
throughput_available_first(cs) ==
    cs # <<>> /\ \E n \in DOMAIN cs[1].benchmarks : cs[1].benchmarks[n].throughput.some

throughput_available(cs) ==
    \E i \in DOMAIN cs : \E n \in DOMAIN cs[i].benchmarks :
        cs[i].benchmarks[n].throughput.some

----------------------------------------------------------------------------
(* Comparisons: colours.  A result is [panic |-> TRUE] where an unwrap fails. *)

Panicked == [panic |-> TRUE]
Returned(v) == [panic |-> FALSE, v |-> v]

divide_by(cfg, comp) ==
    IF cfg.rank = "Benchmark"
    THEN (IF best(comp).some THEN Returned(best(comp).v.nanoseconds) ELSE Panicked)
    ELSE (IF first(comp).some THEN Returned(first(comp).v.nanoseconds) ELSE Panicked)

\* a faulty variant of set_colors_benchmark_mode: the value is compared with first()
set_colors_benchmark_mode_first(comp, current) ==
    IF ~first(comp).some THEN Panicked
    ELSE IF first(comp).v.nanoseconds = current
    THEN Returned(Some(<<"Green", TRUE>>))
    ELSE Returned(None)

set_colors_benchmark_mode(comp, current) ==
    IF ~best(comp).some THEN Panicked
    ELSE IF best(comp).v.nanoseconds = current
    THEN Returned(Some(<<"Green", TRUE>>))
    ELSE Returned(None)

\* THRESHOLD1 = 0.03 and THRESHOLD2 = 0.1, as fractions
THRESHOLD1 == <<3, 100>>
THRESHOLD2 == <<1, 10>>

\* a faulty variant of set_colors_baseline_mode: the faster branch forgets to negate diff
set_colors_baseline_mode_unnegated(comp, current) ==
    IF ~first(comp).some THEN Panicked
    ELSE LET val == f64_div(current, first(comp).v.nanoseconds)
             diff == f64_sub1(val)
         IN IF f64_gt0(diff)
            THEN IF f64_lt_const(diff, THRESHOLD1[1], THRESHOLD1[2]) THEN Returned(None)
                 ELSE IF f64_lt_const(diff, THRESHOLD2[1], THRESHOLD2[2])
                 THEN Returned(Some(<<"Red", FALSE>>))
                 ELSE Returned(Some(<<"Red", TRUE>>))
            ELSE IF f64_lt_const(diff, THRESHOLD1[1], THRESHOLD1[2]) THEN Returned(None)
                 ELSE IF f64_lt_const(diff, THRESHOLD2[1], THRESHOLD2[2])
                 THEN Returned(Some(<<"Green", FALSE>>))
                 ELSE Returned(Some(<<"Green", TRUE>>))

set_colors_baseline_mode(comp, current) ==
    IF ~first(comp).some THEN Panicked
    ELSE LET val == f64_div(current, first(comp).v.nanoseconds)
             diff == f64_sub1(val)
             ndiff == f64_neg(diff)
         IN IF f64_gt0(diff)
            THEN IF f64_lt_const(diff, THRESHOLD1[1], THRESHOLD1[2]) THEN Returned(None)
                 ELSE IF f64_lt_const(diff, THRESHOLD2[1], THRESHOLD2[2])
                 THEN Returned(Some(<<"Red", FALSE>>))
                 ELSE Returned(Some(<<"Red", TRUE>>))
            ELSE IF f64_lt_const(ndiff, THRESHOLD1[1], THRESHOLD1[2]) THEN Returned(None)
                 ELSE IF f64_lt_const(ndiff, THRESHOLD2[1], THRESHOLD2[2])
                 THEN Returned(Some(<<"Green", FALSE>>))
                 ELSE Returned(Some(<<"Green", TRUE>>))

color_conf(cfg, comp, current) ==
    IF cfg.rank = "Baseline" THEN set_colors_baseline_mode(comp, current)
    ELSE set_colors_benchmark_mode(comp, current)

----------------------------------------------------------------------------
(* Comparisons: the renderers.  Each yields the sequence of operations it *)
(* asks of the sink when none fails; Panic marks a failed unwrap.         *)

\* what names the call site of a write!/writeln!
W(what, fmt, args) == [op |-> "write", what |-> what, fmt |-> fmt, args |-> args]
Newline == W("newline", "\n", <<>>)
SetColor(spec) == [op |-> "set_color", what |-> "", fmt |-> "", args |-> spec]
Reset == [op |-> "reset", what |-> "", fmt |-> "", args |-> <<>>]
Flush == [op |-> "flush", what |-> "", fmt |-> "", args |-> <<>>]
Panic == [op |-> "panic", what |-> "", fmt |-> "", args |-> <<>>]

RECURSIVE Flatten(_)
Flatten(ss) == IF ss = <<>> THEN <<>> ELSE Head(ss) \o Flatten(Tail(ss))

\* write!(wtr, "{}", div) with div the divider repeated width times
write_divider(divider, width) == <<W("divider", "{}", <<[repeat |-> divider, width |-> width]>>)>>

\* UnicodeWidthStr::width of a name of one-column characters
width(s) == Len(s)
\* benchmark names are single one-column characters here
column_width(n) == Len(<<n>>)

\* (val, sign) for the configured value format
value(cfg, nanoseconds, by) ==
    IF cfg.value_format = "Percent"
    THEN <<f64_mul(f64_div(nanoseconds, by), 100), "%">>
    ELSE <<f64_div(nanoseconds, by), "">>

\* the column names: every cmdline_ordered name, in first-seen order
RECURSIVE push_new(_, _)
push_new(columns, names) ==
    IF names = <<>> THEN columns
    ELSE push_new(IF Head(names) \in Range(columns) THEN columns
                  ELSE Append(columns, Head(names)),
                  Tail(names))
RECURSIVE column_names(_)
column_names(cs) ==
    IF cs = <<>> THEN <<>>
    ELSE push_new(column_names(SubSeq(cs, 1, Len(cs) - 1)), cs[Len(cs)].cmdline_ordered)

\* set_color and the cell between it and the reset (one column of one row)
cell(cfg, cs, comp, column_name, by) ==
    LET b == get(comp, column_name)
        cc == color_conf(cfg, comp, b.v.nanoseconds)
        vs == value(cfg, b.v.nanoseconds, by)
        text == IF throughput_available(cs)
                THEN W("cell", "\t  {:>8.2}{} {:>14} {:>14}",
                       <<vs[1], vs[2], time(b.v.nanoseconds, b.v.stddev),
                         throughput(b.v.throughput)>>)
                ELSE W("cell", "\t  {:>8.2}{} {:>14}",
                       <<vs[1], vs[2], time(b.v.nanoseconds, b.v.stddev)>>)
    IN IF ~b.some THEN <<W("blank", "\t", <<>>)>>
       ELSE IF cc.panic THEN <<Panic>>
       ELSE IF cc.v.some THEN <<SetColor(cc.v.v), text, Reset>>
       ELSE <<text>>

\* a faulty variant of row: an empty Comparison is not skipped
row_unguarded(cfg, cs, comp, names) ==
    LET by == divide_by(cfg, comp)
    IN <<W("name", "{}", <<comp.name>>)>>
       \o (IF by.panic THEN <<Panic>>
           ELSE Flatten([j \in DOMAIN names |-> cell(cfg, cs, comp, names[j], by.v)])
                \o <<Newline>>)

row(cfg, cs, comp, names) ==
    IF DOMAIN comp.benchmarks = {} THEN <<>>
    ELSE LET by == divide_by(cfg, comp)
         IN <<W("name", "{}", <<comp.name>>)>>
            \o (IF by.panic THEN <<Panic>>
                ELSE Flatten([j \in DOMAIN names |-> cell(cfg, cs, comp, names[j], by.v)])
                     \o <<Newline>>)

columns(cfg, cs) ==
    LET names == column_names(cs)
    IN <<W("header", "group", <<>>)>>
       \o [j \in DOMAIN names |-> W("header", "\t  {}", <<names[j]>>)]
       \o <<Newline>>
       \o write_divider("-", width(<<"g", "r", "o", "u", "p">>))
       \o Flatten([j \in DOMAIN names |->
                      <<W("header", "\t  ", <<>>)>> \o write_divider("-", column_width(names[j]))])
       \o <<Newline>>
       \o Flatten([i \in DOMAIN cs |-> row(cfg, cs, cs[i], names)])

\* the names of a map in key order (BTreeMap iterates by key)
KeyRank(n) == CHOOSE r \in 1..3 : <<"x", "y", "z">>[r] = n
RECURSIVE keys_sorted(_)
keys_sorted(S) ==
    IF S = {} THEN <<>>
    ELSE LET n == CHOOSE n \in S : \A m \in S : KeyRank(n) <= KeyRank(m)
         IN <<n>> \o keys_sorted(S \ {n})

rows_one(cfg, comp) ==
    <<W("name", "{}\n", <<comp.name>>)>> \o write_divider("-", width(comp.name)) \o <<Newline>>
    \o (IF DOMAIN comp.benchmarks = {} THEN <<W("nothing", "NOTHING TO SHOW\n", <<>>)>>
        ELSE LET by == divide_by(cfg, comp)
                 ks == keys_sorted(DOMAIN comp.benchmarks)
             IN IF by.panic THEN <<Panic>>
                ELSE [j \in DOMAIN ks |->
                        LET b == comp.benchmarks[ks[j]]
                            vs == value(cfg, b.nanoseconds, by.v)
                        IN W("row", "{}\t{:>7.2}{}\t{:>15}\t{:>12}\n",
                             <<b.name, vs[1], vs[2], time(b.nanoseconds, b.stddev),
                               throughput(b.throughput)>>)])

rows(cfg, cs) ==
    Flatten([i \in DOMAIN cs |->
                (IF i > 1 THEN <<Newline>> ELSE <<>>) \o rows_one(cfg, cs[i])])

\* the operations of write on a sink that never fails: rows or columns, then flush
rendered(cfg, cs) == (IF cfg.list THEN rows(cfg, cs) ELSE columns(cfg, cs)) \o <<Flush>>

\* the first operation that ends write early: a failed unwrap, or the sink
\* operation that returns an error, which `?` propagates at once
first_stop(ops, fail) ==
    LET stops == {i \in DOMAIN ops : ops[i].op = "panic" \/ i = fail}
    IN IF stops = {} THEN Len(ops) + 1
       ELSE CHOOSE i \in stops : \A j \in stops : i <= j

\* a colour is in effect after the operations done: the last set_color has no reset after it
styled(done) ==
    LET marks == {i \in DOMAIN done : done[i].op \in {"set_color", "reset"}}
    IN marks # {} /\ done[CHOOSE i \in marks : \A j \in marks : j <= i].op = "set_color"

performed(ops, stop) ==
    [ops |-> SubSeq(ops, 1, stop - 1),
     styled |-> styled(SubSeq(ops, 1, stop - 1)),
     result |-> IF stop > Len(ops) THEN "ok"
                ELSE IF ops[stop].op = "panic" THEN "panic" ELSE "err"]

stopped(ops, fail) == performed(ops, first_stop(ops, fail))

\* Comparisons::write against a sink: every operation up to the first failed
\* unwrap or the failing sink operation is performed, the rest are not
write(cfg, cs, fail) == stopped(rendered(cfg, cs), fail)

----------------------------------------------------------------------------
(* Bounds and input domains *)

MaxBenchmarks == 3     \* benchmarks of the one Comparison of Spec
MaxIdentLen == 5       \* characters of an identifier
MaxComps == 2          \* Comparisons of a report
MaxDrops == 2          \* drop_under calls
MaxFail == 12          \* the failing sink operation is among the first MaxFail

Names == {"x", "y"}
Names3 == {"x", "y", "z"}
Thresholds == {-1, 100}

SeqsUpTo(S, n) == UNION {[1..k -> S] : k \in 0..n}

Bench(n, d, t) == [name |-> n, nanoseconds |-> d, stddev |-> None, throughput |-> t]
Benchmarks(names, durs, thrs) == {Bench(n, d, t) : n \in names, d \in durs, t \in thrs}

\* benchmark lists of at most as many entries as there are names in Names,
\* names repeated or not
Lists(B) == SeqsUpTo(B, Cardinality(Names))
\* those whose names are pairwise distinct
Distinct(bs) == \A i, j \in DOMAIN bs : bs[i].name = bs[j].name => i = j
DistinctLists(B) == {bs \in Lists(B) : Distinct(bs)}
\* those that name their benchmarks in key order
OrderedLists(B) ==
    {bs \in Lists(B) : \A i, j \in DOMAIN bs : i < j => KeyRank(bs[i].name) < KeyRank(bs[j].name)}

Idents == SeqsUpTo({"a", "/"}, MaxIdentLen)
\* the identifier of the i-th Comparison of a report
ReportIdent(i) == IF i = 1 THEN <<"g", "r", "p", "/", "a">> ELSE <<"b">>
Reports(lists) ==
    UNION {[1..k -> lists] : k \in 0..MaxComps}
Inputs(lists) ==
    {[i \in DOMAIN r |-> [ident |-> ReportIdent(i), benchmarks |-> r[i]]] : r \in Reports(lists)}

Configs ==
    [list : BOOLEAN, rank : {"Baseline", "Benchmark"}, value_format : {"Percent", "Real"}]

NoQuery == [asked |-> FALSE]

InitOf(inputs, configs, fails) ==
    /\ input \in inputs
    /\ config \in configs
    /\ failAt \in fails
    /\ comps = <<>>
    /\ pc = "start"
    /\ thresholds = <<>>
    /\ prev = <<>>
    /\ query = NoQuery
    /\ sink = [ops |-> <<>>, styled |-> FALSE]
    /\ result = "none"

----------------------------------------------------------------------------
(* Operations *)

\* Comparison::new for every input, then Comparisons::new
Construct ==
    /\ pc = "start"
    /\ comps' = [i \in DOMAIN input |-> new(input[i].ident, input[i].benchmarks)]
    /\ pc' = "ready"
    /\ UNCHANGED <<input, config, failAt, thresholds, prev, query, sink, result>>

DropUnder(t) ==
    /\ pc = "ready"
    /\ Len(thresholds) < MaxDrops
    /\ comps' = drop_under(comps, t)
    /\ prev' = comps
    /\ thresholds' = Append(thresholds, t)
    /\ query' = NoQuery
    /\ UNCHANGED <<input, config, failAt, pc, sink, result>>

\* best(), worst() and first() of the i-th Comparison
Query(i, overflow_checks) ==
    /\ pc = "ready"
    /\ i \in DOMAIN comps
    /\ query' = [asked |-> TRUE, comp |-> comps[i], best |-> best(comps[i]),
                 worst |-> worst(comps[i], overflow_checks), first |-> first(comps[i])]
    /\ UNCHANGED <<input, config, failAt, comps, pc, thresholds, prev, sink, result>>

\* what a write leaves behind: the sink's operations and styling, and the Result
Sunk(w) ==
    /\ sink' = [ops |-> w.ops, styled |-> w.styled]
    /\ result' = w.result

Write ==
    /\ pc = "ready"
    /\ Sunk(write(config, comps, failAt))
    /\ pc' = "written"
    /\ query' = NoQuery
    /\ UNCHANGED <<input, config, failAt, comps, thresholds, prev>>

Next ==
    \/ Construct
    \/ \E t \in Thresholds : DropUnder(t)
    \/ \E i \in 1..MaxComps, oc \in BOOLEAN : Query(i, oc)
    \/ Write

\* one Comparison: every identifier, and every benchmark list with names repeated
Init ==
    InitOf({<<[ident |-> id, benchmarks |-> <<>>]>> : id \in Idents}
           \cup {<<[ident |-> ReportIdent(1), benchmarks |-> bs]>> :
                    bs \in SeqsUpTo(Benchmarks(Names3, {50, 100}, {None}), MaxBenchmarks)},
           {[list |-> FALSE, rank |-> "Benchmark", value_format |-> "Real"]},
           {0})
Spec == Init /\ [][Next]_vars

\* building, filtering and writing a report
NextReport ==
    \/ Construct
    \/ \E t \in Thresholds : DropUnder(t)
    \/ Write

\* reports of Comparisons with zero durations, filtered
InitFilter ==
    InitOf(Inputs(OrderedLists(Benchmarks(Names, {0, 50, 100}, {None}))),
           {[list |-> TRUE, rank |-> "Benchmark", value_format |-> "Real"]},
           {0})
SpecFilter == InitFilter /\ [][NextReport]_vars

\* reports under every display configuration, with empty Comparisons and
\* repeated names
InitReport ==
    InitOf(Inputs(Lists(Benchmarks(Names, {100}, {None}))), Configs, {0})
SpecReport == InitReport /\ [][NextReport]_vars

\* building and writing a report
NextRender ==
    \/ Construct
    \/ Write

\* reports ranked by benchmark, with ties and repeated names
InitRank ==
    InitOf(Inputs(Lists(Benchmarks(Names, {50, 100}, {None}))),
           {c \in Configs : c.rank = "Benchmark" /\ c.value_format = "Real"},
           {0})
SpecRank == InitRank /\ [][NextRender]_vars

\* one Comparison against a baseline of 100 ns and around the colour thresholds
InitBaseline ==
    InitOf({<<[ident |-> ReportIdent(1), benchmarks |-> bs]>> :
              bs \in DistinctLists(Benchmarks(Names, {0, 80, 90, 95, 97, 100, 103, 110, 115}, {None}))},
           {c \in Configs : ~c.list /\ c.rank = "Baseline"},
           {0})
SpecBaseline == InitBaseline /\ [][NextRender]_vars

\* reports with and without throughputs
InitThroughput ==
    InitOf(Inputs(OrderedLists(Benchmarks(Names, {100},
               {None, Some([tag |-> "Bytes", num |-> 1000]),
                Some([tag |-> "Elements", num |-> 4096])}))),
           {c \in Configs : c.value_format = "Real" /\ c.rank = "Benchmark"},
           {0})
SpecThroughput == InitThroughput /\ [][NextRender]_vars

\* a sink that fails
InitSink ==
    InitOf(Inputs(DistinctLists(Benchmarks(Names, {100}, {None}))),
           {c \in Configs : ~c.list /\ c.value_format = "Real"},
           0..MaxFail)
SpecSink == InitSink /\ [][NextRender]_vars

----------------------------------------------------------------------------
(* Properties *)

Built == pc # "start"
NamesOf(bs) == [i \in DOMAIN bs |-> bs[i].name]
Durations(bs) == {bs[i].nanoseconds : i \in DOMAIN bs}
Min(S) == CHOOSE m \in S : \A n \in S : m <= n
Max(S) == CHOOSE m \in S : \A n \in S : n <= m
Perms(n) == {p \in [1..n -> 1..n] : \A i, j \in 1..n : p[i] = p[j] => i = j}
Permuted(bs, p) == [i \in DOMAIN bs |-> bs[p[i]]]
Last(s) == s[Len(s)]

\* ((worst - best) / best) * 100 of the slowest and the fastest of a list
Spread(bs) ==
    IF Len(bs) < 2 THEN Fin(0, 1, 0)
    ELSE f64_mul(f64_div(Max(Durations(bs)) - Min(Durations(bs)), Min(Durations(bs))), 100)

\* C1, as claimed: drop_under(t) removes exactly the Comparisons whose
\* biggest_difference() is <= t, the survivors keeping their order, and a
\* further drop_under with the same or a smaller threshold changes nothing.
C1_RemovesExactlyLE ==
    thresholds # <<>> =>
        /\ comps = SelectSeq(prev,
                LAMBDA c : ~f64_le(biggest_difference(c), Last(thresholds)))
        /\ (Len(thresholds) >= 2 /\ Last(thresholds) <= thresholds[Len(thresholds) - 1]
                => comps = prev)

\* C1, amended: drop_under(t) removes exactly the Comparisons whose
\* biggest_difference() is <= t or is NaN, the survivors keeping their order,
\* and a further drop_under with the same or a smaller threshold changes nothing.
C1_RemovesLEOrNaN ==
    thresholds # <<>> =>
        /\ comps = SelectSeq(prev,
                LAMBDA c : ~(f64_le(biggest_difference(c), Last(thresholds))
                             \/ IsNaN(biggest_difference(c))))
        /\ (Len(thresholds) >= 2 /\ Last(thresholds) <= thresholds[Len(thresholds) - 1]
                => comps = prev)

\* a report of a NaN-spread and a positive-spread Comparison, filtered twice,
\* the second time with a smaller threshold
C1_Witness ==
    /\ Len(thresholds) = 2
    /\ thresholds[2] < thresholds[1]
    /\ Len(input) = 2
    /\ IsNaN(biggest_difference(new(input[1].ident, input[1].benchmarks)))
    /\ Len(comps) = 1
    /\ comps = prev
    /\ f64_gt(biggest_difference(comps[1]), thresholds[1])

\* C2, as claimed: biggest_difference is 0 for a Comparison built from 0 or 1
\* benchmarks and ((worst - best) / best) * 100 of the slowest and fastest
\* benchmark for 2 or more, the same for every permutation of the list.
C2_Spread ==
    Built /\ thresholds = <<>> =>
        LET bs == input[1].benchmarks
        IN /\ biggest_difference(comps[1]) = Spread(bs)
           /\ \A p \in Perms(Len(bs)) :
                 biggest_difference(new(input[1].ident, Permuted(bs, p)))
                    = biggest_difference(comps[1])

\* C2, amended: the same, for a benchmark list whose names are pairwise distinct.
C2_SpreadDistinct ==
    Built /\ thresholds = <<>> /\ Distinct(input[1].benchmarks) =>
        LET bs == input[1].benchmarks
        IN /\ biggest_difference(comps[1]) = Spread(bs)
           /\ \A p \in Perms(Len(bs)) :
                 biggest_difference(new(input[1].ident, Permuted(bs, p)))
                    = biggest_difference(comps[1])

\* three distinct benchmarks, the fastest not named first, with a positive spread
C2_Witness ==
    /\ Built /\ thresholds = <<>>
    /\ Len(input[1].benchmarks) = 3
    /\ Distinct(input[1].benchmarks)
    /\ input[1].benchmarks[1].nanoseconds = 100
    /\ biggest_difference(comps[1]) = Fin(100, 1, 0)

\* perf is the names of a stable sort of bs by nanoseconds
StablySorted(perf, bs) ==
    \E p \in Perms(Len(bs)) :
        /\ perf = NamesOf(Permuted(bs, p))
        /\ \A i, j \in DOMAIN bs :
              i < j => \/ bs[p[i]].nanoseconds < bs[p[j]].nanoseconds
                       \/ bs[p[i]].nanoseconds = bs[p[j]].nanoseconds /\ p[i] < p[j]
\* s lists every element of S exactly once
PermutationOf(s, S) == Range(s) = S /\ Len(s) = Cardinality(S)
Orderings(comp, bs) ==
    /\ comp.cmdline_ordered = NamesOf(bs)
    /\ StablySorted(comp.perf_ordered, bs)
    /\ PermutationOf(comp.cmdline_ordered, DOMAIN comp.benchmarks)
    /\ PermutationOf(comp.perf_ordered, DOMAIN comp.benchmarks)

\* C3, as claimed: after Comparison::new on any benchmark list, cmdline_ordered
\* is the input name sequence, perf_ordered is non-decreasing by nanoseconds
\* with equal durations in input order, both are permutations of the keys of
\* the benchmarks map, and this stays so through queries, drop_under and write.
C3_Orderings ==
    Built => \A i \in DOMAIN comps : Orderings(comps[i], input[1].benchmarks)

\* C3, amended: the same, for a benchmark list whose names are pairwise distinct.
C3_OrderingsDistinct ==
    Built /\ Distinct(input[1].benchmarks) =>
        \A i \in DOMAIN comps : Orderings(comps[i], input[1].benchmarks)

\* a Comparison of three distinct benchmarks, two of them tied and the
\* fastest named last, that was kept by a drop_under and written
C3_Witness ==
    /\ pc = "written" /\ thresholds # <<>> /\ Len(comps) = 1
    /\ Distinct(input[1].benchmarks)
    /\ NamesOf(input[1].benchmarks) = <<"z", "x", "y">>
    /\ comps[1].perf_ordered = <<"y", "z", "x">>

\* the part of an identifier before its first '/' and the part after it
HasSlash(id) == \E i \in DOMAIN id : id[i] = "/"
FirstSlash(id) == Min({i \in DOMAIN id : id[i] = "/"})

\* C4: Comparison::new splits its identifier at the first '/': with a '/',
\* group is the part before it and name the whole remainder after it, further
\* '/' included; without one, group is absent and name the whole identifier.
C4_SplitAtFirstSlash ==
    Built =>
        \A i \in DOMAIN comps :
            LET id == input[1].ident
            IN IF HasSlash(id)
               THEN /\ comps[i].group = Some(SubSeq(id, 1, FirstSlash(id) - 1))
                    /\ comps[i].name = SubSeq(id, FirstSlash(id) + 1, Len(id))
               ELSE /\ comps[i].group = None
                    /\ comps[i].name = id

\* C9: on an empty Comparison best(), worst() and first() return absent
\* without failing or overflowing; on a non-empty one best() is the benchmark
\* at performance rank 0, worst() the one at rank count-1 and first() the one
\* at command-line rank 0.
C9_Queries ==
    query.asked =>
        LET c == query.comp
            n == Len(c.perf_ordered)
        IN /\ query.worst.outcome = "returned"
           /\ ~query.worst.overflow
           /\ IF DOMAIN c.benchmarks = {}
              THEN query.best = None /\ query.worst.value = None /\ query.first = None
              ELSE /\ query.best = Some(c.benchmarks[c.perf_ordered[1]])
                   /\ query.worst.value = Some(c.benchmarks[c.perf_ordered[n]])
                   /\ query.first = Some(c.benchmarks[c.cmdline_ordered[1]])

----------------------------------------------------------------------------
(* What the sink received, read back as rows and cells *)

Ops == sink.ops
IsCell(i) == Ops[i].op = "write" /\ Ops[i].what = "cell"
IsRow(i) == Ops[i].op = "write" /\ Ops[i].what = "row"
\* the colour in effect for the write at i: that of a set_color right before it
Colour(i) == IF i > 1 /\ Ops[i - 1].op = "set_color" THEN Some(Ops[i - 1].args) ELSE None
GreenBold == Some(<<"Green", TRUE>>)
\* the number of the Comparison a write belongs to: the names written so far
RowOf(i) == Cardinality({k \in 1..i : Ops[k].what = "name"})
NonEmpty == SelectSeq(comps, LAMBDA c : DOMAIN c.benchmarks # {})
\* table mode: the column names of the header, and the column of a cell
ColumnNames ==
    LET hs == SelectSeq(Ops, LAMBDA o : o.what = "header" /\ Len(o.args) = 1)
    IN [j \in DOMAIN hs |-> hs[j].args[1]]
ColOf(i) ==
    Cardinality({k \in 1..i : Ops[k].what \in {"cell", "blank"} /\ RowOf(k) = RowOf(i)})
CellComp(i) == NonEmpty[RowOf(i)]
CellBench(i) == CellComp(i).benchmarks[ColumnNames[ColOf(i)]]
\* list mode: the Comparison and the benchmark of a row
RowComp(i) == comps[RowOf(i)]
RowBench(i) == RowComp(i).benchmarks[Ops[i].args[1]]
Written == pc = "written" /\ result = "ok"
Example == <<Bench("x", 100, None), Bench("y", 50, None)>>

\* C5, as claimed: in Benchmark ranking mode every rendered entry, a row in
\* list mode or a cell in table mode, is coloured green-bold if and only if its
\* duration equals the Comparison's best().nanoseconds.
C5_EntriesColoured ==
    Written /\ config.rank = "Benchmark" =>
        \A i \in DOMAIN Ops :
            /\ IsCell(i) =>
                  (Colour(i) = GreenBold
                     <=> CellBench(i).nanoseconds = best(CellComp(i)).v.nanoseconds)
            /\ IsRow(i) =>
                  (Colour(i) = GreenBold
                     <=> RowBench(i).nanoseconds = best(RowComp(i)).v.nanoseconds)

\* C5, amended: in Benchmark ranking mode every cell of table mode is coloured
\* green-bold if and only if its duration equals the Comparison's
\* best().nanoseconds, no cell has another colour, and with pairwise distinct
\* names that duration is the minimum, so every cell tied at the minimum is
\* coloured and no other; list mode sets no colour.  For "grp/a" with x=100
\* and y=50 the table cells are x, y with values 2.0 and 1.0, y green-bold and
\* x uncoloured.
C5_CellsColoured ==
    Written /\ config.rank = "Benchmark" =>
        /\ \A i \in DOMAIN Ops :
              IsCell(i) =>
                /\ Colour(i) \in {None, GreenBold}
                /\ Colour(i) = GreenBold
                     <=> CellBench(i).nanoseconds = best(CellComp(i)).v.nanoseconds
                /\ Distinct(input[RowOf(i)].benchmarks) /\ NonEmpty = comps =>
                     (Colour(i) = GreenBold
                        <=> CellBench(i).nanoseconds
                              = Min(Durations(input[RowOf(i)].benchmarks)))
        /\ config.list => \A i \in DOMAIN Ops : Ops[i].op # "set_color"
        /\ ~config.list /\ Len(input) = 1 /\ input[1].benchmarks = Example =>
              LET cells == SelectSeq(Ops, LAMBDA o : o.what = "cell")
                  marks == SelectSeq(Ops, LAMBDA o : o.op = "set_color" \/ o.what = "cell")
              IN /\ [j \in DOMAIN cells |-> cells[j].args[1]] = <<Fin(2, 1, 0), Fin(1, 1, 0)>>
                 /\ [j \in DOMAIN marks |-> marks[j].op] = <<"write", "set_color", "write">>

\* a table of two Comparisons, the first the example, the second with both
\* benchmarks tied at the minimum and both coloured
C5_Witness ==
    /\ Written /\ config.rank = "Benchmark" /\ ~config.list
    /\ Len(input) = 2
    /\ input[1].benchmarks = Example
    /\ Distinct(input[2].benchmarks)
    /\ Cardinality({i \in DOMAIN Ops : IsCell(i) /\ RowOf(i) = 2 /\ Colour(i) = GreenBold}) = 2
    /\ Cardinality({i \in DOMAIN Ops : IsCell(i) /\ RowOf(i) = 1 /\ Colour(i) = GreenBold}) = 1

\* x >= c for one of the decimal constants of the source
GeConst(x, c) == ~IsNaN(x) /\ ~f64_lt_const(x, c[1], c[2])
LtConst(x, c) == f64_lt_const(x, c[1], c[2])
AbsF(x) == IF x.k = "ninf" \/ (x.k = "fin" /\ x.n < 0) THEN f64_neg(x) ELSE x
\* current / first - 1, as the f64 operations compute it
Diff(current, fst) == f64_sub1(f64_div(current, fst))
\* the colours the baseline policy gives against a first of 100 ns
Against100 ==
    [c \in {100, 103, 95, 115, 80} |->
        CASE c = 100 -> None
          [] c = 103 -> Some(<<"Red", FALSE>>)
          [] c = 95 -> Some(<<"Green", FALSE>>)
          [] c = 115 -> Some(<<"Red", TRUE>>)
          [] c = 80 -> Some(<<"Green", TRUE>>)]

\* C6: in Baseline ranking mode, with diff = current / first().nanoseconds - 1,
\* a value has no colour when |diff| < 0.03, is red when 0.03 <= diff < 0.10,
\* red bold when diff >= 0.10, green when 0.03 <= -diff < 0.10 and green bold
\* when -diff >= 0.10; against a first of 100 ns: 100 none, 103 red, 95 green,
\* 115 red bold, 80 green bold.
C6_BaselineColour ==
    Written /\ config.rank = "Baseline" =>
        \A i \in DOMAIN Ops :
            IsCell(i) =>
                LET current == CellBench(i).nanoseconds
                    fst == first(CellComp(i)).v.nanoseconds
                    diff == Diff(current, fst)
                    ndiff == f64_neg(diff)
                IN /\ LtConst(AbsF(diff), THRESHOLD1) => Colour(i) = None
                   /\ GeConst(diff, THRESHOLD1) /\ LtConst(diff, THRESHOLD2)
                        => Colour(i) = Some(<<"Red", FALSE>>)
                   /\ GeConst(diff, THRESHOLD2) => Colour(i) = Some(<<"Red", TRUE>>)
                   /\ GeConst(ndiff, THRESHOLD1) /\ LtConst(ndiff, THRESHOLD2)
                        => Colour(i) = Some(<<"Green", FALSE>>)
                   /\ GeConst(ndiff, THRESHOLD2) => Colour(i) = Some(<<"Green", TRUE>>)
                   /\ fst = 100 /\ current \in DOMAIN Against100
                        => Colour(i) = Against100[current]

\* a table against a first of 100 ns whose second cell, 103 ns, is red
C6_Witness ==
    /\ Written /\ config.rank = "Baseline" /\ ~config.list
    /\ NamesOf(input[1].benchmarks) = <<"y", "x">>
    /\ first(comps[1]).v.nanoseconds = 100
    /\ \E i \in DOMAIN Ops :
          /\ IsCell(i) /\ ColOf(i) = 2
          /\ CellBench(i).nanoseconds = 103
          /\ Colour(i) = Some(<<"Red", FALSE>>)

\* the throughput field of a cell, absent when the cell prints none
HasField(o) == Len(o.args) = 4

\* C7: in table mode the throughput field is all-or-nothing: if any benchmark
\* of any retained Comparison has a throughput, every non-empty cell of every
\* row has the field, the placeholder "? ?/sec" where the benchmark has none;
\* if no benchmark has one, no cell has the field.
C7_ThroughputAllOrNothing ==
    Written /\ ~config.list =>
        LET any == \E k \in DOMAIN comps : \E n \in DOMAIN comps[k].benchmarks :
                        comps[k].benchmarks[n].throughput.some
        IN \A i \in DOMAIN Ops :
              IsCell(i) =>
                /\ HasField(Ops[i]) <=> any
                /\ any => (Ops[i].args[4].fmt = "? ?/sec" <=> ~CellBench(i).throughput.some)

\* a table of two Comparisons, only the first with a throughput, whose second
\* row carries the placeholder
C7_Witness ==
    /\ Written /\ ~config.list
    /\ Len(comps) = 2
    /\ \E n \in DOMAIN comps[1].benchmarks : comps[1].benchmarks[n].throughput.some
    /\ \A n \in DOMAIN comps[2].benchmarks : ~comps[2].benchmarks[n].throughput.some
    /\ \E i \in DOMAIN Ops :
          IsCell(i) /\ RowOf(i) = 2 /\ HasField(Ops[i]) /\ Ops[i].args[4] = Placeholder

\* C8: during write, whatever sink operation fails, every set_color is
\* followed by a reset before any later cell or newline and before write
\* returns, so no styling set by the renderer is in effect when it returns.
C8_StylingReset ==
    pc = "written" =>
        /\ ~sink.styled
        /\ \A i \in DOMAIN Ops :
              Ops[i].op = "set_color" => i + 2 \in DOMAIN Ops /\ Ops[i + 2].op = "reset"

\* the tags of the writes a list of the Comparisons consists of
RECURSIVE ListShape(_)
ListShape(cs) ==
    IF cs = <<>> THEN <<>>
    ELSE LET n == Len(cs)
             c == cs[n]
         IN ListShape(SubSeq(cs, 1, n - 1))
            \o (IF n > 1 THEN <<"newline">> ELSE <<>>)
            \o <<"name", "divider", "newline">>
            \o (IF DOMAIN c.benchmarks = {} THEN <<"nothing">>
                ELSE [j \in 1..Cardinality(DOMAIN c.benchmarks) |-> "row"])

\* C10: for every report built through Comparison::new, empty Comparisons
\* included, every display configuration and any drop_under calls, write
\* requests no normalization basis and no colour of an empty Comparison, so no
\* unwrap fails: list mode prints the header, divider and "NOTHING TO SHOW" of
\* an empty Comparison, table mode gives it no row.
C10_EmptyComparisons ==
    pc = "written" =>
        /\ result = "ok"
        /\ config.list =>
              [i \in 1..(Len(Ops) - 1) |-> Ops[i].what] = ListShape(comps)
        /\ ~config.list =>
              LET shown == SelectSeq(Ops, LAMBDA o : o.what = "name")
              IN [k \in DOMAIN shown |-> shown[k].args[1]]
                    = [k \in DOMAIN NonEmpty |-> NonEmpty[k].name]

\* a table written after a drop_under that kept an empty Comparison beside a
\* Comparison with benchmarks
C10_Witness ==
    /\ Written /\ ~config.list /\ config.rank = "Baseline"
    /\ thresholds # <<>>
    /\ Len(comps) = 2 /\ Len(NonEmpty) = 1
    /\ DOMAIN comps[1].benchmarks = {}

====
